---- MODULE Spec2Model ----
(***************************************************************************)
(* Model of ai_startup_analyst_agent/agent.py: the three BigQuery loader   *)
(* tools, the three pipeline sub-agents that call them (their required     *)
(* flow as written in their instructions), the SequentialAgent that runs   *)
(* the sub-agents and the root agent that reports the outcome.             *)
(***************************************************************************)
EXTENDS Integers, Sequences, FiniteSets, TLC

\* ------------------------------------------------------------------ bounds

\* Largest number of files the root agent hands to the pipeline.
MaxDocs == 2

\* ------------------------------------------------------- program constants

\* "retry once (total 2)"
IngestionBudget == 2
\* "retry the call up to 1 more times (total 2 attempts)"
EnrichmentBudget == 2
\* "retry the tool invocation up to 2 more times (total 3 attempts)"
NotificationBudget == 3

Stages == <<"Ingestion", "Enrichment", "Notification">>
StageSet == {"Ingestion", "Enrichment", "Notification"}
Tables == {"RawBatch", "StructuredProfile", "DealNote"}

\* sub_agents=[extract_load_raw_data_agent, extract_load_structured_data,
\*             generate_deal_note_agent]
StageIndex(s) == CHOOSE i \in 1..3 : Stages[i] = s

\* tools=[...] of each sub-agent: the table its loader writes.
TableOf(s) ==
  CASE s = "Ingestion" -> "RawBatch"
    [] s = "Enrichment" -> "StructuredProfile"
    [] s = "Notification" -> "DealNote"

BudgetOfThree(s) == NotificationBudget
Budget(s) ==
  CASE s = "Ingestion" -> IngestionBudget
    [] s = "Enrichment" -> EnrichmentBudget
    [] s = "Notification" -> NotificationBudget

\* output_key of each sub-agent
OutputKey(s) ==
  CASE s = "Ingestion" -> "raw_file_text_data"
    [] s = "Enrichment" -> "structured_company_data"
    [] s = "Notification" -> "deal_note_text"
OutputKeys == { OutputKey(s) : s \in StageSet }

\* --------------------------------------------------------------- payloads

\* An optional value: {} is Python's None, {x} is the value x.
None == {}
Some(x) == {x}

required_fields ==
  {"source_id", "company_id", "company_name", "source_type", "received_at",
   "file_name", "raw_content_text"}
required_core == {"company_id", "company_name"}
required ==
  {"note_id", "company_id", "company_name", "generated_at", "note_version",
   "note_content"}

\* A JSON value standing as a row: an object is known by its keys and by which
\* of them hold null; anything else (a string, a number, null) is not an object.
Row(isObj, keys, nulls) == [obj |-> isObj, keys |-> keys, nulls |-> nulls]
NotAnObject == Row(FALSE, {}, {})

\* The rows a sub-agent may assemble for one file.
RawRows ==
  { Row(TRUE, required_fields, {}),
    Row(TRUE, required_fields, {"raw_content_text"}),
    Row(TRUE, required_fields \ {"source_id"}, {}),
    Row(TRUE, required_fields \ {"received_at", "file_name"}, {"company_id"}),
    NotAnObject }

\* The objects the Enrichment sub-agent may serialise as its profile.
ProfileObjects ==
  { Row(TRUE, required_core \cup {"deal_score"}, {}),
    Row(TRUE, required_core \cup {"deal_score"}, {"company_id", "deal_score"}),
    Row(TRUE, {"company_name", "deal_score"}, {}),
    Row(TRUE, {"deal_score"}, {}) }

\* The objects the Notification sub-agent may serialise as its deal note.
NoteObjects ==
  { Row(TRUE, required, {}),
    Row(TRUE, required, {"note_content"}),
    Row(TRUE, required \ {"note_id"}, {}),
    Row(TRUE, required \ {"note_id", "generated_at"}, {}) }

\* The string argument of a loader tool, by what json.loads makes of it:
\*   "None"    the argument is None           "Empty"  the argument is ""
\*   "Invalid" json.loads raises              "Scalar" a JSON string/number/null
\*   "Array"   a JSON array of `rows`         "Object" the JSON object rows[1]
Payload(form, rows) == [form |-> form, rows |-> rows]
NoPayload == Payload("Unset", <<>>)
MalformedPayloads ==
  { Payload("None", <<>>), Payload("Empty", <<>>), Payload("Invalid", <<>>),
    Payload("Scalar", <<>>) }

\* ------------------------------------------------------------- Warehouse

\* What one load job does: client.load_table_from_json(...) followed by
\* load_job.result().  `raises`: one of the two calls raises; `commits`: the
\* rows were appended to the table, all of them or none (a job may commit
\* although waiting for it raised, or commit and still report errors);
\* `errors`: load_job.errors; `output_rows`: the attribute load_job.output_rows,
\* which the job object may lack, hold as None or hold as a count.
Absent == [has |-> FALSE, val |-> None]
Attr(v) == [has |-> TRUE, val |-> v]

\* getattr(obj, name, default)
getattr(attr, default) == IF attr.has THEN attr.val ELSE default

Outcome(raises, commits, errors, output_rows) ==
  [raises |-> raises, commits |-> commits, errors |-> errors,
   output_rows |-> output_rows]

Outcomes(n) ==
  { Outcome(FALSE, TRUE, <<>>, Attr(Some(n))),
    Outcome(FALSE, TRUE, <<>>, Attr(None)),
    Outcome(FALSE, TRUE, <<>>, Absent),
    Outcome(TRUE, FALSE, <<>>, Absent),
    Outcome(TRUE, TRUE, <<>>, Absent),
    Outcome(FALSE, FALSE, <<"bad record">>, Attr(None)),
    Outcome(FALSE, TRUE, <<"bad record">>, Attr(None)) }

\* ------------------------------------------------------------ loader tools

NoDetails == [kind |-> "none", bad_rows |-> <<>>, fields |-> {}, job_errors |-> <<>>]
BadRowDetails(b) == [kind |-> "bad_rows", bad_rows |-> b, fields |-> {}, job_errors |-> <<>>]
FieldDetails(f) == [kind |-> "fields", bad_rows |-> <<>>, fields |-> f, job_errors |-> <<>>]
JobErrorDetails(e) == [kind |-> "job_errors", bad_rows |-> <<>>, fields |-> {}, job_errors |-> e]

\* What a tool call leaves behind: `ret` is the dict it returns (status
\* "raised": it returned nothing, an exception left the function), `load` says
\* whether load_table_from_json was called and `commit` how many rows the
\* Warehouse appended.
ErrorDict(message, details) ==
  [ret |-> [status |-> "error", message |-> message, details |-> details,
            inserted_rows |-> None],
   load |-> FALSE, commit |-> 0]
Raised(message) ==
  [ret |-> [status |-> "raised", message |-> message, details |-> NoDetails,
            inserted_rows |-> None],
   load |-> FALSE, commit |-> 0]
NoResult ==
  [status |-> "unset", message |-> "", details |-> NoDetails, inserted_rows |-> None]

\* The validation loop with the row check applied to the first row only.
bad_rows_first_row_only(rows, n) ==
  IF n = 0 THEN <<>>
  ELSE IF ~rows[1].obj
  THEN <<[index |-> 0, error |-> "row not an object", missing_fields |-> {}]>>
  ELSE IF required_fields \ rows[1].keys # {}
  THEN <<[index |-> 0, error |-> "",
          missing_fields |-> required_fields \ rows[1].keys]>>
  ELSE <<>>

\* The validation loop skipping a row that is not an object without recording it.
RECURSIVE bad_rows_skipping_non_objects(_, _)
bad_rows_skipping_non_objects(rows, n) ==
  IF n = 0 THEN <<>>
  ELSE LET prev == bad_rows_skipping_non_objects(rows, n - 1)
           r == rows[n]
       IN  IF r.obj /\ required_fields \ r.keys # {}
           THEN Append(prev, [index |-> n - 1, error |-> "",
                              missing_fields |-> required_fields \ r.keys])
           ELSE prev

\* for i, r in enumerate(rows_to_insert): ... bad_rows.append(...)
RECURSIVE bad_rows(_, _)
bad_rows(rows, n) ==
  IF n = 0 THEN <<>>
  ELSE LET prev == bad_rows(rows, n - 1)
           r == rows[n]
           missing == required_fields \ r.keys
       IN  IF ~r.obj
           THEN Append(prev, [index |-> n - 1, error |-> "row not an object",
                              missing_fields |-> {}])
           ELSE IF missing # {}
           THEN Append(prev, [index |-> n - 1, error |-> "",
                              missing_fields |-> missing])
           ELSE prev

\* client = bigquery.Client(); load_job = client.load_table_from_json(rows,
\* table_id); load_job.result(); then load_job.errors.  Creating the client
\* is outside the try block; `inserted` is the count the caller reports on
\* success.
LoadJobIgnoringErrors(n, clientOk, job, exceptionMessage, inserted) ==
  IF ~clientOk
  THEN Raised("bigquery.Client()")
  ELSE IF job.raises
  THEN [ErrorDict(exceptionMessage, NoDetails)
          EXCEPT !.load = TRUE, !.commit = IF job.commits THEN n ELSE 0]
  ELSE [ret |-> [status |-> "success", message |-> "", details |-> NoDetails,
                 inserted_rows |-> inserted],
        load |-> TRUE, commit |-> IF job.commits THEN n ELSE 0]
LoadJob(n, clientOk, job, exceptionMessage, inserted) ==
  IF ~clientOk
  THEN Raised("bigquery.Client()")
  ELSE IF job.raises
  THEN [ErrorDict(exceptionMessage, NoDetails)
          EXCEPT !.load = TRUE, !.commit = IF job.commits THEN n ELSE 0]
  ELSE IF job.errors # <<>>
  THEN [ErrorDict("load job returned errors", JobErrorDetails(job.errors))
          EXCEPT !.load = TRUE, !.commit = IF job.commits THEN n ELSE 0]
  ELSE [ret |-> [status |-> "success", message |-> "", details |-> NoDetails,
                 inserted_rows |-> inserted],
        load |-> TRUE, commit |-> IF job.commits THEN n ELSE 0]

\* inserted = getattr(load_job, "output_rows", None); if inserted is None: ...
InsertedOr(job, submitted) ==
  LET inserted == getattr(job.output_rows, None)
  IN  IF inserted = None THEN Some(submitted) ELSE inserted

load_raw_json_data_swallowing_parse_errors(raw_json_data, clientOk, job) ==
  IF raw_json_data.form \in {"None", "Empty", "Invalid"}
  THEN LoadJob(0, clientOk, job, "exception during load job", InsertedOr(job, 0))
  ELSE IF raw_json_data.form # "Array"
  THEN ErrorDict("expected JSON array (list)", NoDetails)
  ELSE LET rows_to_insert == raw_json_data.rows
           bad == bad_rows(rows_to_insert, Len(rows_to_insert))
       IN  IF bad # <<>>
           THEN ErrorDict("schema validation failed", BadRowDetails(bad))
           ELSE LoadJob(Len(rows_to_insert), clientOk, job,
                        "exception during load job",
                        InsertedOr(job, Len(rows_to_insert)))
load_raw_json_data_to_bigquery(raw_json_data, clientOk, job) ==
  IF raw_json_data.form \in {"None", "Empty"}
  THEN ErrorDict("raw_json_data empty", NoDetails)
  ELSE IF raw_json_data.form = "Invalid"
  THEN ErrorDict("invalid JSON", NoDetails)
  ELSE IF raw_json_data.form # "Array"
  THEN ErrorDict("expected JSON array (list)", NoDetails)
  ELSE LET rows_to_insert == raw_json_data.rows
           bad == bad_rows(rows_to_insert, Len(rows_to_insert))
       IN  IF bad # <<>>
           THEN ErrorDict("schema validation failed", BadRowDetails(bad))
           ELSE LoadJob(Len(rows_to_insert), clientOk, job,
                        "exception during load job",
                        InsertedOr(job, Len(rows_to_insert)))

\* The profile tool counting a core field that holds null as missing.
load_structured_data_requiring_values(structured_json, clientOk, job) ==
  IF structured_json.form \in {"None", "Empty"}
  THEN ErrorDict("structured_json empty", NoDetails)
  ELSE IF structured_json.form = "Invalid"
  THEN ErrorDict("invalid JSON", NoDetails)
  ELSE IF structured_json.form # "Object"
  THEN Raised("obj.keys()")
  ELSE LET obj == structured_json.rows[1]
           missing_core == required_core \ (obj.keys \ obj.nulls)
       IN  IF missing_core # {}
           THEN ErrorDict("missing required core fields", FieldDetails(missing_core))
           ELSE LoadJob(1, clientOk, job, "exception during load job",
                        InsertedOr(job, 1))

\* obj.keys() is called on whatever json.loads returned: anything but a JSON
\* object has no keys() and the call raises outside any try block.
load_structured_data_to_bigquery(structured_json, clientOk, job) ==
  IF structured_json.form \in {"None", "Empty"}
  THEN ErrorDict("structured_json empty", NoDetails)
  ELSE IF structured_json.form = "Invalid"
  THEN ErrorDict("invalid JSON", NoDetails)
  ELSE IF structured_json.form # "Object"
  THEN Raised("obj.keys()")
  ELSE LET obj == structured_json.rows[1]
           missing_core == required_core \ obj.keys
       IN  IF missing_core # {}
           THEN ErrorDict("missing required core fields", FieldDetails(missing_core))
           ELSE LoadJob(1, clientOk, job, "exception during load job",
                        InsertedOr(job, 1))

\* The deal note tool answering success without submitting the load job.
load_deal_note_without_load(deal_note_json, clientOk, job) ==
  IF deal_note_json.form \in {"None", "Empty"}
  THEN ErrorDict("deal_note_json empty", NoDetails)
  ELSE IF deal_note_json.form = "Invalid"
  THEN ErrorDict("invalid JSON", NoDetails)
  ELSE IF deal_note_json.form # "Object"
  THEN ErrorDict("expected JSON object (dict)", NoDetails)
  ELSE IF required \ deal_note_json.rows[1].keys # {}
  THEN ErrorDict("missing required fields",
                 FieldDetails(required \ deal_note_json.rows[1].keys))
  ELSE [ret |-> [status |-> "success", message |-> "", details |-> NoDetails,
                 inserted_rows |-> Some(1)],
        load |-> FALSE, commit |-> 0]

\* inserted = getattr(load_job, "output_rows", 1): the default 1 applies to a
\* missing attribute only, a None the attribute holds is returned as it is.
load_deal_note_to_bigquery(deal_note_json, clientOk, job) ==
  IF deal_note_json.form \in {"None", "Empty"}
  THEN ErrorDict("deal_note_json empty", NoDetails)
  ELSE IF deal_note_json.form = "Invalid"
  THEN ErrorDict("invalid JSON", NoDetails)
  ELSE IF deal_note_json.form # "Object"
  THEN ErrorDict("expected JSON object (dict)", NoDetails)
  ELSE LET deal_note_data == deal_note_json.rows[1]
           missing == required \ deal_note_data.keys
       IN  IF missing # {}
           THEN ErrorDict("missing required fields", FieldDetails(missing))
           ELSE LoadJob(1, clientOk, job, "load job exception",
                        getattr(job.output_rows, Some(1)))

\* The loader tool of each sub-agent (tools=[...]).
Tool(s, payload, clientOk, job) ==
  CASE s = "Ingestion" -> load_raw_json_data_to_bigquery(payload, clientOk, job)
    [] s = "Enrichment" -> load_structured_data_to_bigquery(payload, clientOk, job)
    [] s = "Notification" -> load_deal_note_to_bigquery(payload, clientOk, job)

\* Rows a payload submits when it reaches the load call.
Submitted(payload) == IF payload.form = "Array" THEN Len(payload.rows) ELSE 1

\* ------------------------------------------------------------------ state

VARIABLES
  rootPc,          \* root agent: "collect", "waiting" (pipeline running), "returned"
  docState,        \* Ingestion: per file, "pending" / "assembled" (with its row) / "error"
  stagePc,         \* per sub-agent: its position in its required flow
  payload,         \* per sub-agent: the serialised string it passes to its tool
  attempts,        \* per sub-agent: tool calls made so far
  toolResult,      \* per sub-agent: what its last tool call returned
  lastCall,        \* per sub-agent: the load job its last tool call started, if any
  analyzerCalls,   \* per sub-agent: extraction / analysis / composition steps run
  warehouse,       \* per table: load calls received, load jobs committed, rows held
  session_state,   \* session state: output_key -> the sub-agent's final output
  response,        \* what the root agent returns to the user
  profile,         \* Enrichment: the one JSON object it generated
  derivation       \* Enrichment post-processing: the values extracted, then derived

vars ==
  <<rootPc, docState, stagePc, payload, attempts, toolResult, lastCall,
    analyzerCalls, warehouse, session_state, response, profile, derivation>>

\* A sub-agent's final output.  Ingestion returns a JSON array holding
\* `simplified` objects {company_id, company_name, raw_content_text} and
\* `file_errors` objects {status: "error", error_message}; Enrichment returns
\* the JSON object it generated (`body`).
Output(kind, code, simplified, file_errors, body) ==
  [kind |-> kind, code |-> code, simplified |-> simplified,
   file_errors |-> file_errors, body |-> body]
NoOutput == Output("absent", "", 0, 0, NotAnObject)
ArrayOutput(simplified, file_errors) ==
  Output("array", "", simplified, file_errors, NotAnObject)
ProfileOutput(object) == Output("profile", "", 0, 0, object)
NoteOutput == Output("note", "", 0, 0, NotAnObject)
MarkedNoteOutput ==
  Output("marked_note", "[PERSISTENCE_FAILED] ", 0, 0, NotAnObject)
ErrorOutput(code) == Output("error", code, 0, 0, NotAnObject)

\* An output that reports an error: an ERROR object, or an array carrying
\* status="error" entries.
IsError(o) == o.kind = "error" \/ (o.kind = "array" /\ o.file_errors > 0)

\* What a sub-agent left in the session state.
OutputOf(s) == session_state[OutputKey(s)]

NoCall == [load |-> FALSE, job |-> Outcome(FALSE, FALSE, <<>>, Absent)]
NoResponse == [error |-> "unset", details |-> NoOutput]

Init ==
  /\ rootPc = "collect"
  /\ docState = <<>>
  /\ stagePc = [s \in StageSet |-> "idle"]
  /\ payload = [s \in StageSet |-> NoPayload]
  /\ attempts = [s \in StageSet |-> 0]
  /\ toolResult = [s \in StageSet |-> NoResult]
  /\ lastCall = [s \in StageSet |-> NoCall]
  /\ analyzerCalls = [s \in StageSet |-> 0]
  /\ warehouse = [t \in Tables |-> [calls |-> 0, loads |-> 0, rows |-> 0]]
  /\ session_state = [k \in OutputKeys |-> NoOutput]
  /\ response = NoResponse
  /\ profile = NotAnObject
  /\ derivation = <<>>

\* ------------------------------------------------------------- root agent

\* Steps 1-3: with company_name and files in hand, pass the files to the
\* pipeline agent and wait.
RootDelegate ==
  /\ rootPc = "collect"
  /\ \E n \in 1..MaxDocs :
       docState' = [d \in 1..n |-> [st |-> "pending", row |-> NotAnObject]]
  /\ rootPc' = "waiting"
  /\ UNCHANGED <<stagePc, payload, attempts, toolResult, lastCall,
                 analyzerCalls, warehouse, session_state, response, profile,
                 derivation>>

\* ------------------------------------------------------- SequentialAgent

\* SequentialAgent runs its sub_agents one after the other: a sub-agent is
\* started once every sub-agent before it has finished.
CanStartEarly(s) ==
  \A t \in StageSet : StageIndex(t) < StageIndex(s) => stagePc[t] # "idle"
CanStart(s) ==
  \A t \in StageSet : StageIndex(t) < StageIndex(s) => stagePc[t] = "done"

RunSubAgent(s) ==
  /\ rootPc = "waiting"
  /\ stagePc[s] = "idle"
  /\ CanStart(s)
  /\ stagePc' = [stagePc EXCEPT ![s] =
                   IF s = "Ingestion" THEN "invoke" ELSE "validate_input"]
  /\ UNCHANGED <<rootPc, docState, payload, attempts, toolResult, lastCall,
                 analyzerCalls, warehouse, session_state, response, profile,
                 derivation>>

\* The sub-agent's final response is stored under its output_key; its working
\* data (the files' objects, the serialised string, the tool response) end
\* with it.
Emit(s, out) ==
  /\ session_state' = [session_state EXCEPT ![OutputKey(s)] = out]
  /\ stagePc' = [stagePc EXCEPT ![s] = "done"]
  /\ payload' = [payload EXCEPT ![s] = NoPayload]
  /\ toolResult' = [toolResult EXCEPT ![s] = NoResult]
  /\ lastCall' = [lastCall EXCEPT ![s] = NoCall]
  /\ docState' = IF s = "Ingestion" THEN <<>> ELSE docState
  /\ profile' = IF s = "Enrichment" THEN NotAnObject ELSE profile
  /\ UNCHANGED derivation

\* ----------------------------------------------- extract_load_raw_data_agent

\* Steps 1-2 for one file: extract its raw text and produce its JSON object;
\* step 6: a file that cannot be processed gets a status="error" object.
ExtractFile(d) ==
  /\ stagePc["Ingestion"] = "invoke"
  /\ d \in DOMAIN docState
  /\ docState[d].st = "pending"
  /\ \/ \E r \in RawRows :
          docState' = [docState EXCEPT ![d] = [st |-> "assembled", row |-> r]]
     \/ docState' = [docState EXCEPT ![d] = [st |-> "error", row |-> NotAnObject]]
  /\ analyzerCalls' = [analyzerCalls EXCEPT !["Ingestion"] = @ + 1]
  /\ UNCHANGED <<rootPc, stagePc, payload, attempts, toolResult, lastCall,
                 warehouse, session_state, response, profile,
                 derivation>>

\* The objects of the files that come before the first file without one.
AssembledRowsBeforeError(docs, n) ==
  LET without == {d \in 1..n : docs[d].st # "assembled"}
      stop == IF without = {} THEN n
              ELSE (CHOOSE d \in without : \A e \in without : d <= e) - 1
  IN  [i \in 1..stop |-> docs[i].row]

\* The objects produced so far, in file order.
RECURSIVE AssembledRows(_, _)
AssembledRows(docs, n) ==
  IF n = 0 THEN <<>>
  ELSE IF docs[n].st = "assembled"
       THEN Append(AssembledRows(docs, n - 1), docs[n].row)
       ELSE AssembledRows(docs, n - 1)

FilesWith(st) == Cardinality({d \in DOMAIN docState : docState[d].st = st})

\* Step 3 follows steps 1-2 "for each file".
SomeFileHandled == \E d \in DOMAIN docState : docState[d].st # "pending"
AllFilesHandled == \A d \in DOMAIN docState : docState[d].st # "pending"

\* Step 3: create a single JSON ARRAY string of the objects.  The string is
\* the sub-agent's own serialisation, which the tool may find unparsable or
\* of another shape.
SerializeBatch ==
  /\ stagePc["Ingestion"] = "invoke"
  /\ AllFilesHandled
  /\ \E p \in MalformedPayloads
              \cup { Payload("Array", AssembledRows(docState, Len(docState))),
                     Payload("Object", <<Row(TRUE, required_fields, {})>>) } :
       payload' = [payload EXCEPT !["Ingestion"] = p]
  /\ stagePc' = [stagePc EXCEPT !["Ingestion"] = "persist"]
  /\ UNCHANGED <<rootPc, docState, attempts, toolResult, lastCall,
                 analyzerCalls, warehouse, session_state, response, profile,
                 derivation>>

\* ---------------------------------------------------------- tool invocation

\* The sub-agent calls its loader tool with its serialised string and waits
\* for the response.  An exception leaving the tool ends the run.
CallTool(s) ==
  /\ stagePc[s] = "persist"
  /\ \E clientOk \in BOOLEAN, job \in Outcomes(Submitted(payload[s])) :
       LET call == Tool(s, payload[s], clientOk, job)
           t == TableOf(s)
       IN  /\ toolResult' = [toolResult EXCEPT ![s] = call.ret]
           /\ lastCall' = [lastCall EXCEPT ![s] =
                             IF call.load THEN [load |-> TRUE, job |-> job]
                             ELSE NoCall]
           /\ warehouse' = [warehouse EXCEPT ![t] =
                              [calls |-> @.calls + (IF call.load THEN 1 ELSE 0),
                               loads |-> @.loads + (IF call.commit > 0 THEN 1 ELSE 0),
                               rows |-> @.rows + call.commit]]
           /\ stagePc' = [stagePc EXCEPT ![s] =
                            IF call.ret.status = "raised" THEN "crashed" ELSE "react"]
  /\ attempts' = [attempts EXCEPT ![s] = @ + 1]
  /\ UNCHANGED <<rootPc, docState, payload, analyzerCalls, session_state, response,
                 profile, derivation>>

\* "in case error in tool then retry once (total 2)", "retry the call up to 1
\* more times (total 2 attempts)", "retry the tool invocation up to 2 more
\* times (total 3 attempts)"
MayRetryOnceMore(s) == attempts[s] <= Budget(s)
MayRetry(s) == attempts[s] < Budget(s)

RetryTool(s) ==
  /\ stagePc[s] = "react"
  /\ toolResult[s].status = "error"
  /\ MayRetry(s)
  /\ stagePc' = [stagePc EXCEPT ![s] = "persist"]
  /\ UNCHANGED <<rootPc, docState, payload, attempts, toolResult, lastCall,
                 analyzerCalls, warehouse, session_state, response, profile,
                 derivation>>

\* "the error indicates a malformed payload (schema invalid)": the tool
\* rejected the string itself, before any load job.
IndicatesMissingFields(result) ==
  /\ result.status = "error"
  /\ result.message = "missing required fields"
IndicatesMalformedPayload(result) ==
  /\ result.status = "error"
  /\ result.message \in {"deal_note_json empty", "invalid JSON",
                         "expected JSON object (dict)", "missing required fields"}

\* What each sub-agent returns once the tool returned {"status":"success"}.
SuccessOutput(s) ==
  CASE s = "Ingestion" -> ArrayOutput(FilesWith("assembled"), FilesWith("error"))
    [] s = "Enrichment" -> ProfileOutput(profile)
    [] s = "Notification" -> NoteOutput

\* What each sub-agent returns once all its attempts returned an error.
ExhaustedOutputBestEffort(s) ==
  CASE s = "Ingestion" -> ArrayOutput(FilesWith("assembled"), FilesWith("error"))
    [] s = "Enrichment" -> ProfileOutput(profile)
    [] s = "Notification" ->
         IF IndicatesMalformedPayload(toolResult[s])
         THEN ErrorOutput("DEAL_NOTE_SCHEMA_INVALID")
         ELSE MarkedNoteOutput
ExhaustedOutputFailing(s) ==
  CASE s = "Ingestion" -> ArrayOutput(0, Len(docState))
    [] s = "Enrichment" -> ErrorOutput("PERSISTENCE_FAILED")
    [] s = "Notification" ->
         IF IndicatesMalformedPayload(toolResult[s])
         THEN ErrorOutput("DEAL_NOTE_SCHEMA_INVALID")
         ELSE MarkedNoteOutput
ExhaustedOutputEchoingInput(s) ==
  CASE s = "Ingestion" -> ArrayOutput(0, Len(docState))
    [] s = "Enrichment" -> ProfileOutput(profile)
    [] s = "Notification" ->
         IF IndicatesMalformedPayload(toolResult[s])
         THEN ErrorOutput("DEAL_NOTE_SCHEMA_INVALID")
         ELSE session_state["raw_file_text_data"]
ExhaustedOutputUnmarked(s) ==
  CASE s = "Ingestion" -> ArrayOutput(0, Len(docState))
    [] s = "Enrichment" -> ProfileOutput(profile)
    [] s = "Notification" ->
         IF IndicatesMalformedPayload(toolResult[s])
         THEN ErrorOutput("DEAL_NOTE_SCHEMA_INVALID")
         ELSE NoteOutput
ExhaustedOutput(s) ==
  CASE s = "Ingestion" -> ArrayOutput(0, Len(docState))
    [] s = "Enrichment" -> ProfileOutput(profile)
    [] s = "Notification" ->
         IF IndicatesMalformedPayload(toolResult[s])
         THEN ErrorOutput("DEAL_NOTE_SCHEMA_INVALID")
         ELSE MarkedNoteOutput

EmitAfterSuccess(s) ==
  /\ stagePc[s] = "react"
  /\ toolResult[s].status = "success"
  /\ Emit(s, SuccessOutput(s))
  /\ UNCHANGED <<rootPc, attempts, analyzerCalls, warehouse, response>>

EmitAfterRetries(s) ==
  /\ stagePc[s] = "react"
  /\ toolResult[s].status = "error"
  /\ ~MayRetry(s)
  /\ Emit(s, ExhaustedOutput(s))
  /\ UNCHANGED <<rootPc, attempts, analyzerCalls, warehouse, response>>

\* ---------------------- extract_load_structured_data, generate_deal_note_agent

\* PRECONDITION / SOURCE OF INPUT: the key raw_file_text_data holds an array
\* of objects, each containing company_id, company_name and raw_content_text.
PreconditionArrayOnly == session_state["raw_file_text_data"].kind = "array"
PreconditionKeyPresent == session_state["raw_file_text_data"].kind # "absent"
PreconditionWithProfile ==
  /\ session_state["raw_file_text_data"].kind = "array"
  /\ session_state["raw_file_text_data"].file_errors = 0
  /\ (session_state["structured_company_data"].kind # "absent"
       => LET object == session_state["structured_company_data"].body
          IN  "company_id" \in object.keys \ object.nulls)
PreconditionMet ==
  /\ session_state["raw_file_text_data"].kind = "array"
  /\ session_state["raw_file_text_data"].file_errors = 0

ValidateInput(s) ==
  /\ s \in {"Enrichment", "Notification"}
  /\ stagePc[s] = "validate_input"
  /\ \/ /\ PreconditionMet
        /\ stagePc' = [stagePc EXCEPT ![s] = "invoke"]
        /\ UNCHANGED <<session_state, docState, payload, toolResult, lastCall,
                       profile, derivation>>
     \/ /\ ~PreconditionMet
        /\ Emit(s, ErrorOutput("MISSING_RAW_FILE_TEXT_DATA"))
  /\ UNCHANGED <<rootPc, attempts, analyzerCalls, warehouse, response>>

\* MAIN TASK: analyse raw_file_text_data and generate the one JSON object,
\* then serialise it for the tool.
AnalyzeCompany ==
  /\ stagePc["Enrichment"] = "invoke"
  /\ \E o \in ProfileObjects :
       /\ profile' = o
       /\ \E p \in MalformedPayloads
                   \cup { Payload("Object", <<o>>), Payload("Array", <<o>>) } :
            payload' = [payload EXCEPT !["Enrichment"] = p]
  /\ analyzerCalls' = [analyzerCalls EXCEPT !["Enrichment"] = @ + 1]
  /\ stagePc' = [stagePc EXCEPT !["Enrichment"] = "persist"]
  /\ UNCHANGED <<rootPc, docState, attempts, toolResult, lastCall, warehouse,
                 session_state, response, derivation>>

\* PRIMARY TASK and steps 1-2 of the tool requirement: draft the note, build
\* the JSON object and serialise it.
ComposeNote ==
  /\ stagePc["Notification"] = "invoke"
  /\ \E p \in MalformedPayloads
              \cup { Payload("Object", <<o>>) : o \in NoteObjects }
              \cup { Payload("Array", <<o>>) : o \in NoteObjects } :
       payload' = [payload EXCEPT !["Notification"] = p]
  /\ analyzerCalls' = [analyzerCalls EXCEPT !["Notification"] = @ + 1]
  /\ stagePc' = [stagePc EXCEPT !["Notification"] = "persist"]
  /\ UNCHANGED <<rootPc, docState, attempts, toolResult, lastCall, warehouse,
                 session_state, response, profile, derivation>>

\* Step 5: "If you are unable to invoke the tool at all (for example the tool
\* is not present to the agent/runtime or the runtime fails before tool call)".
ToolNotInvoked ==
  /\ stagePc["Notification"] = "persist"
  /\ attempts["Notification"] = 0
  /\ Emit("Notification", ErrorOutput("TOOL_NOT_INVOKED"))
  /\ UNCHANGED <<rootPc, attempts, analyzerCalls, warehouse, response>>

\* ------------------------------------------------------------- root agent

\* The pipeline's final output is the output of generate_deal_note_agent.
PipelineReturn == session_state["deal_note_text"]

\* "If the pipeline returns an error at any step"
PipelineErrored == \E s \in StageSet : IsError(OutputOf(s))

\* Steps 5-6: return the pipeline's final output, or
\* {"error": "PIPELINE_FAILED", "details": <pipeline-return>}.
RootReturn ==
  /\ rootPc = "waiting"
  /\ \A s \in StageSet : stagePc[s] = "done"
  /\ response' = [error |-> IF PipelineErrored THEN "PIPELINE_FAILED" ELSE "none",
                  details |-> PipelineReturn]
  /\ rootPc' = "returned"
  /\ UNCHANGED <<docState, stagePc, payload, attempts, toolResult, lastCall,
                 analyzerCalls, warehouse, session_state, profile,
                 derivation>>

Next ==
  \/ RootDelegate
  \/ \E s \in StageSet : RunSubAgent(s)
  \/ \E d \in 1..MaxDocs : ExtractFile(d)
  \/ SerializeBatch
  \/ \E s \in StageSet : CallTool(s)
  \/ \E s \in StageSet : RetryTool(s)
  \/ \E s \in StageSet : EmitAfterSuccess(s)
  \/ \E s \in StageSet : EmitAfterRetries(s)
  \/ \E s \in StageSet : ValidateInput(s)
  \/ AnalyzeCompany
  \/ ComposeNote
  \/ ToolNotInvoked
  \/ RootReturn

Spec == Init /\ [][Next]_vars

\* The runner takes the next step of the run whenever there is one: every
\* extraction, analysis, composition and tool call returns.
FairSpec == Spec /\ WF_vars(Next)

\* ------------------------- extract_load_structured_data: derived fields

\* The numeric fields of the one JSON object that the output rules derive:
\* each holds null (None) or a number.
Fields(mrr, arr, cash, burn, runway, score) ==
  [revenue_mrr_usd |-> mrr, revenue_arr_usd |-> arr, cash_on_hand_usd |-> cash,
   burn_rate_monthly_usd |-> burn, runway_months |-> runway,
   deal_score |-> score]

Val(x) == CHOOSE v \in x : TRUE

\* The rubric's total is capped here.
MaxDealScore == 10
\* Months in a year: MRR is monthly, ARR annual recurring revenue.
MonthsPerYear == 12

\* What the Content Analyzer may read out of the raw text: revenue figures
\* (annual ones whole multiples of 12, so that the monthly figure is exact),
\* cash, a burn rate that may be zero or negative, a stated runway, and the
\* rubric total (the rubric's factors add up to 0..10; a higher total comes
\* from a factor scored beyond its range), or no information at all.
MaxTotal == 11
Candidates ==
  { Fields(mrr, arr, cash, burn, runway, score) :
      mrr \in {None, Some(0), Some(10000)},
      arr \in {None, Some(60000), Some(120000)},
      cash \in {None, Some(0), Some(100000)},
      burn \in {None, Some(0), Some(-15000), Some(15000)},
      runway \in {None, Some(3)},
      score \in {None} \cup { Some(t) : t \in 0..MaxTotal } }

\* Both revenue figures recomputed from each other whenever the other one is
\* there.
derive_reconciling(p) ==
  [p EXCEPT
     !.revenue_mrr_usd =
        IF p.revenue_arr_usd # None
        THEN Some(Val(p.revenue_arr_usd) \div MonthsPerYear) ELSE @,
     !.revenue_arr_usd =
        IF p.revenue_mrr_usd # None
        THEN Some(Val(p.revenue_mrr_usd) * MonthsPerYear) ELSE @,
     !.runway_months =
        IF /\ p.cash_on_hand_usd # None /\ p.burn_rate_monthly_usd # None
           /\ Val(p.burn_rate_monthly_usd) # 0
        THEN Some(Val(p.cash_on_hand_usd) \div Val(p.burn_rate_monthly_usd))
        ELSE None,
     !.deal_score =
        IF p.deal_score # None /\ Val(p.deal_score) > MaxDealScore
        THEN Some(MaxDealScore) ELSE @]

\* "If only MRR or ARR exists, compute the other."
\* "If cash_on_hand_usd and burn_rate_monthly_usd are present, compute
\* runway_months as floor(cash_on_hand / burn_rate)"; "null if cannot
\* compute", which is the case of a burn rate of 0.
\* deal_score: the rubric total, "Cap at 10"; "If no info at all -> null".
derive(p) ==
  [p EXCEPT
     !.revenue_mrr_usd =
        IF @ = None /\ p.revenue_arr_usd # None
        THEN Some(Val(p.revenue_arr_usd) \div MonthsPerYear) ELSE @,
     !.revenue_arr_usd =
        IF @ = None /\ p.revenue_mrr_usd # None
        THEN Some(Val(p.revenue_mrr_usd) * MonthsPerYear) ELSE @,
     !.runway_months =
        IF /\ p.cash_on_hand_usd # None /\ p.burn_rate_monthly_usd # None
           /\ Val(p.burn_rate_monthly_usd) # 0
        THEN Some(Val(p.cash_on_hand_usd) \div Val(p.burn_rate_monthly_usd))
        ELSE None,
     !.deal_score =
        IF p.deal_score # None /\ Val(p.deal_score) > MaxDealScore
        THEN Some(MaxDealScore) ELSE @]

\* "Do not output explanations or sub-scores"; "Print only the JSON object":
\* the stage keeps no record of how a field was derived.
Explanations(p) == {}

\* The output rules applied to what the analyzer read, and applied again to
\* their own result.
MaxDerivations == 2

DeriveInit ==
  /\ rootPc = "collect"
  /\ docState = <<>>
  /\ stagePc = [s \in StageSet |-> "idle"]
  /\ payload = [s \in StageSet |-> NoPayload]
  /\ attempts = [s \in StageSet |-> 0]
  /\ toolResult = [s \in StageSet |-> NoResult]
  /\ lastCall = [s \in StageSet |-> NoCall]
  /\ analyzerCalls = [s \in StageSet |-> 0]
  /\ warehouse = [t \in Tables |-> [calls |-> 0, loads |-> 0, rows |-> 0]]
  /\ session_state = [k \in OutputKeys |-> NoOutput]
  /\ response = NoResponse
  /\ profile = NotAnObject
  /\ \E c \in Candidates : derivation = <<c>>

Derive ==
  /\ Len(derivation) \in 1..MaxDerivations
  /\ derivation' = Append(derivation, derive(derivation[Len(derivation)]))
  /\ UNCHANGED <<rootPc, docState, stagePc, payload, attempts, toolResult,
                 lastCall, analyzerCalls, warehouse, session_state, response,
                 profile>>

DeriveNext == Derive

DeriveSpec == DeriveInit /\ [][DeriveNext]_vars

\* ------------------------------------------------------------------ claims

FirstFailedStage ==
  CHOOSE s \in StageSet :
    /\ IsError(OutputOf(s))
    /\ \A t \in StageSet : StageIndex(t) < StageIndex(s) => ~IsError(OutputOf(t))

\* The sub-agents were started in pipeline order.
StartedInOrder ==
  \A s, t \in StageSet :
    (StageIndex(s) < StageIndex(t) /\ stagePc[t] # "idle") => stagePc[s] # "idle"

\* Once a sub-agent has returned an error, no later sub-agent analyses,
\* composes or calls its tool.
NoWorkAfterFailure ==
  \A s, t \in StageSet :
    (StageIndex(s) < StageIndex(t) /\ IsError(OutputOf(s)))
      => (analyzerCalls[t] = 0 /\ attempts[t] = 0 /\ stagePc[t] \notin {"invoke", "persist", "react"})

\* C1 as stated: the stages run in the order Ingestion, Enrichment,
\* Notification; once a stage returns an error result no later stage makes a
\* Content Analyzer call or a Gateway call; and the caller receives
\* {error: "PIPELINE_FAILED", details: <the failing stage's result>}.
C1_Original ==
  /\ StartedInOrder
  /\ NoWorkAfterFailure
  /\ (rootPc = "returned" /\ PipelineErrored)
       => /\ response.error = "PIPELINE_FAILED"
          /\ response.details = OutputOf(FirstFailedStage)

\* C1 amended: the stages are started in the order Ingestion, Enrichment,
\* Notification; once a stage returns an error result every later stage
\* makes no Content Analyzer call and no Gateway call and itself returns an
\* error object; and the caller receives {error: "PIPELINE_FAILED", details:
\* <the pipeline's final output>}, which is the Notification stage's error
\* object and not the result of the stage that failed first.
C1_FailureSurfaced ==
  /\ StartedInOrder
  /\ NoWorkAfterFailure
  /\ \A s, t \in StageSet :
       (StageIndex(s) < StageIndex(t) /\ IsError(OutputOf(s))
          /\ stagePc[t] = "done")
         => OutputOf(t) = ErrorOutput("MISSING_RAW_FILE_TEXT_DATA")
  /\ (rootPc = "returned" /\ PipelineErrored)
       => /\ response.error = "PIPELINE_FAILED"
          /\ response.details = OutputOf("Notification")
          /\ response.details.kind = "error"
  /\ (rootPc = "returned" /\ ~PipelineErrored)
       => /\ response.error = "none"
          /\ response.details.kind \in {"note", "marked_note"}

\* An Ingestion failure reached the caller through the later stages.
C1_Witness ==
  /\ rootPc = "returned"
  /\ IsError(OutputOf("Ingestion"))
  /\ attempts["Ingestion"] = IngestionBudget
  /\ response.error = "PIPELINE_FAILED"

\* C2: no stage starts while a persistence attempt or a pending retry of an
\* earlier stage is unresolved: whenever a later stage has left its idle
\* position, every earlier stage has finished, and from then on the earlier
\* stage makes no further tool call.
C2_StagesDoNotOverlap ==
  [][\A s, t \in StageSet :
       (StageIndex(s) < StageIndex(t) /\ stagePc'[t] # "idle")
         => /\ stagePc'[s] = "done"
            /\ attempts'[s] = attempts[s]
            /\ warehouse'[TableOf(s)] = warehouse[TableOf(s)]]_vars

\* Both earlier stages used their retry and Notification is at work.
C2_Witness ==
  /\ attempts["Ingestion"] = IngestionBudget
  /\ attempts["Enrichment"] = EnrichmentBudget
  /\ stagePc["Notification"] = "persist"

\* C3 as stated: each logical record (the RawRecord batch, the
\* StructuredProfile, the DealNote) is appended to the Warehouse at most once,
\* also when a load call reported an error and the stage retried.
C3_AppendedAtMostOnce ==
  \A t \in Tables : warehouse[t].loads <= 1

EmptyOrUnparsable(p) == p.form \in {"None", "Empty", "Invalid"}
Untouched(t) == warehouse[t] = [calls |-> 0, loads |-> 0, rows |-> 0]

\* C4: for each of the three tools, an empty or unparsable payload returns
\* status "error", no load call is issued and the Warehouse table stays as
\* it was.
C4_EmptyPayloadNeverLoaded ==
  \A s \in StageSet :
    (attempts[s] > 0 /\ EmptyOrUnparsable(payload[s]))
      => /\ toolResult[s].status = "error"
         /\ ~lastCall[s].load
         /\ Untouched(TableOf(s))

C4_Witness ==
  /\ attempts["Notification"] = NotificationBudget
  /\ payload["Notification"].form = "Empty"
  /\ warehouse["RawBatch"].calls > 0

\* A payload of the expected shape that fails the tool's required-field
\* contract, stated on the payload alone.
FailsContract(s, p) ==
  CASE s = "Ingestion" ->
         /\ p.form = "Array"
         /\ \E i \in 1..Len(p.rows) :
              ~p.rows[i].obj \/ ~(required_fields \subseteq p.rows[i].keys)
    [] s = "Enrichment" ->
         p.form = "Object" /\ ~(required_core \subseteq p.rows[1].keys)
    [] s = "Notification" ->
         p.form = "Object" /\ ~(required \subseteq p.rows[1].keys)

\* C5: a payload that fails the required-field check (for the raw batch: any
\* single row failing) causes no load call and adds no row, and a raw batch
\* is in the table in full or not at all.
C5_ContractCheckedBeforeWrite ==
  /\ \A s \in StageSet :
       (attempts[s] > 0 /\ FailsContract(s, payload[s]))
         => /\ toolResult[s].status = "error"
            /\ ~lastCall[s].load
            /\ Untouched(TableOf(s))
  /\ (payload["Ingestion"].form = "Array")
       => warehouse["RawBatch"].rows
            = warehouse["RawBatch"].loads * Len(payload["Ingestion"].rows)

\* A two-row batch whose second row alone is bad was rejected.
C5_Witness ==
  /\ attempts["Ingestion"] > 0
  /\ payload["Ingestion"].form = "Array"
  /\ Len(payload["Ingestion"].rows) = 2
  /\ required_fields \subseteq payload["Ingestion"].rows[1].keys
  /\ ~(required_fields \subseteq payload["Ingestion"].rows[2].keys)
  /\ toolResult["Ingestion"].message = "schema validation failed"

\* The raw loader's validation let the batch through.
ValidationPassed == toolResult["Ingestion"].details.kind # "bad_rows"
BatchValidated == attempts["Ingestion"] > 0 /\ payload["Ingestion"].form = "Array"
Reported == toolResult["Ingestion"].details.bad_rows
ReportedIndices == { Reported[k].index : k \in 1..Len(Reported) }

HasAllFieldsNonNull(r) ==
  r.obj /\ required_fields \subseteq r.keys /\ required_fields \cap r.nulls = {}
HasAllFields(r) == r.obj /\ required_fields \subseteq r.keys

\* C6 as stated: validation passes if and only if every row has all 7
\* required fields present and non-null; when it fails the diagnostic list is
\* non-empty and reports exactly the indices of the failing rows.
C6_PassesIffPresentAndNonNull ==
  BatchValidated =>
    LET rows == payload["Ingestion"].rows
    IN  /\ ValidationPassed <=> \A i \in 1..Len(rows) : HasAllFieldsNonNull(rows[i])
        /\ ~ValidationPassed
             => /\ Reported # <<>>
                /\ ReportedIndices
                     = { i - 1 : i \in { j \in 1..Len(rows) : ~HasAllFieldsNonNull(rows[j]) } }

\* C6 amended: validation passes if and only if every row is an object that
\* has all 7 required keys, whatever their values (a null value counts as
\* present); when it fails the diagnostic list is non-empty, has one entry
\* per failing row and reports exactly the indices of the rows that are not
\* objects or lack a key.
C6_PassesIffKeysPresent ==
  BatchValidated =>
    LET rows == payload["Ingestion"].rows
        failing == { j \in 1..Len(rows) : ~HasAllFields(rows[j]) }
    IN  /\ ValidationPassed <=> failing = {}
        /\ ~ValidationPassed
             => /\ Reported # <<>>
                /\ Len(Reported) = Cardinality(failing)
                /\ ReportedIndices = { i - 1 : i \in failing }
                /\ \A k \in 1..Len(Reported) :
                     LET r == rows[Reported[k].index + 1]
                     IN  IF r.obj
                         THEN Reported[k].missing_fields = required_fields \ r.keys
                         ELSE Reported[k].error = "row not an object"

\* A batch whose first row holds a null and whose second row is no object:
\* only the second row is reported.
C6_Witness ==
  /\ BatchValidated
  /\ Len(payload["Ingestion"].rows) = 2
  /\ HasAllFields(payload["Ingestion"].rows[1])
  /\ payload["Ingestion"].rows[1].nulls # {}
  /\ ~payload["Ingestion"].rows[2].obj
  /\ ReportedIndices = {1}

\* C7 as stated: for every payload and every Warehouse outcome a tool call
\* ends by returning a dict with status "success" or "error"; no exception
\* leaves the tool.
C7_ToolAlwaysReturns ==
  \A s \in StageSet :
    attempts[s] > 0 /\ stagePc[s] # "done"
      => /\ toolResult[s].status \in {"success", "error"}
         /\ stagePc[s] # "crashed"

\* C8: whenever the load call raises or completes with a non-empty error
\* list the tool returns status "error", with the error list as details when
\* there is one; status "success" is returned only for a load call that
\* completed with no reported errors.
C8_LoadFailureIsError ==
  \A s \in StageSet :
    LET job == lastCall[s].job
        res == toolResult[s]
    IN  /\ (lastCall[s].load /\ (job.raises \/ job.errors # <<>>))
             => /\ res.status = "error"
                /\ (~job.raises => res.details = JobErrorDetails(job.errors))
        /\ res.status = "success"
             => (lastCall[s].load /\ ~job.raises /\ job.errors = <<>>)

\* A load job that committed its rows and reported errors came back as an error.
C8_Witness ==
  /\ lastCall["Enrichment"].load
  /\ lastCall["Enrichment"].job.errors # <<>>
  /\ lastCall["Enrichment"].job.commits
  /\ toolResult["Enrichment"].details.kind = "job_errors"

\* C9 as stated: on success the returned count is the Warehouse's row count
\* when it reports one and the number of rows submitted when it reports none
\* (attribute absent or null); it is never null.
C9_InsertedCount ==
  \A s \in StageSet :
    toolResult[s].status = "success"
      => LET reported == lastCall[s].job.output_rows
         IN  /\ toolResult[s].inserted_rows # None
             /\ toolResult[s].inserted_rows =
                  IF reported.has /\ reported.val # None
                  THEN reported.val
                  ELSE Some(Submitted(payload[s]))

\* C10: a stage never makes more tool calls than its budget (Ingestion 2,
\* Enrichment 2, Notification 3), makes a call after its first only when the
\* previous call returned an error, and makes none after a success.
C10_AttemptsWithinBudget ==
  [][\A s \in StageSet :
       attempts'[s] # attempts[s]
         => /\ attempts'[s] = attempts[s] + 1
            /\ attempts'[s] <= Budget(s)
            /\ attempts[s] > 0 => toolResult[s].status = "error"]_vars

\* Every stage used its whole budget.
C10_Witness ==
  /\ attempts["Ingestion"] = IngestionBudget
  /\ attempts["Enrichment"] = EnrichmentBudget
  /\ attempts["Notification"] = NotificationBudget

\* The Ingestion output key is absent, or holds something other than a list of
\* objects each carrying company_id, company_name and raw_content_text.
InputAbsentOrMalformed ==
  LET raw == session_state["raw_file_text_data"]
  IN  raw.kind # "array" \/ raw.file_errors > 0

NoEnrichmentWork ==
  /\ analyzerCalls["Enrichment"] = 0
  /\ attempts["Enrichment"] = 0
  /\ Untouched(TableOf("Enrichment"))

\* C11 as stated: Enrichment, run while the Ingestion output key is absent or
\* malformed, returns an error object with code INPUT_MISSING and has made
\* no Content Analyzer call and no Gateway call, the Warehouse unchanged.
C11_Original ==
  (stagePc["Enrichment"] = "done" /\ InputAbsentOrMalformed)
    => /\ OutputOf("Enrichment") = ErrorOutput("INPUT_MISSING")
       /\ NoEnrichmentWork

\* C11: Enrichment, run while the Ingestion output key is absent or
\* malformed, returns the error object {error: MISSING_RAW_FILE_TEXT_DATA}
\* and has made no Content Analyzer call and no Gateway call, the Warehouse
\* table of profiles unchanged.
C11_MissingInputRejected ==
  (stagePc["Enrichment"] = "done" /\ InputAbsentOrMalformed)
    => /\ OutputOf("Enrichment") = ErrorOutput("MISSING_RAW_FILE_TEXT_DATA")
       /\ NoEnrichmentWork

\* Enrichment returned after Ingestion left a malformed list behind.
C11_Witness ==
  /\ stagePc["Enrichment"] = "done"
  /\ InputAbsentOrMalformed
  /\ OutputOf("Enrichment").kind = "error"

\* The Gateway took the payload and the load failed: a failure of the
\* Warehouse, not of the payload.
TransientFailure(s) == toolResult[s].status = "error" /\ lastCall[s].load

\* The Gateway's own validation rejected the payload before any load.
RejectedByValidation(s) == toolResult[s].status = "error" /\ ~lastCall[s].load

\* Notification returns after having tried to persist.
ReturnsAfterAttempts(s) == stagePc[s] = "react" /\ stagePc'[s] = "done"

\* C12 as stated: Notification returns the note text unmarked when an
\* attempt succeeded (the third, after two transient failures, included),
\* the note text prefixed with "[PERSISTENCE_FAILED] " when all three attempts
\* failed transiently, and the marker is in the output if and only if no
\* attempt succeeded.
C12_Original ==
  [][ReturnsAfterAttempts("Notification")
       => LET last == toolResult["Notification"]
              out == OutputOf("Notification")'
          IN  /\ last.status = "success" => out = NoteOutput
              /\ TransientFailure("Notification")
                   => /\ attempts["Notification"] = NotificationBudget
                      /\ out = MarkedNoteOutput
              /\ out.kind = "marked_note" <=> last.status # "success"]_vars

\* C12: Notification returns the note text unmarked when an attempt
\* succeeded (the third, after two transient failures, included) and the
\* note text prefixed with "[PERSISTENCE_FAILED] " when all three attempts
\* failed transiently; the marker is in the output if and only if no attempt
\* succeeded and the last error is not a rejection of the payload, which
\* yields the DEAL_NOTE_SCHEMA_INVALID error object instead.
C12_MarkerAfterTransientFailures ==
  [][ReturnsAfterAttempts("Notification")
       => LET last == toolResult["Notification"]
              out == OutputOf("Notification")'
          IN  /\ last.status = "success" => out = NoteOutput
              /\ TransientFailure("Notification")
                   => /\ attempts["Notification"] = NotificationBudget
                      /\ out = MarkedNoteOutput
              /\ RejectedByValidation("Notification")
                   => out = ErrorOutput("DEAL_NOTE_SCHEMA_INVALID")
              /\ out.kind = "marked_note"
                   <=> (last.status # "success"
                          /\ ~RejectedByValidation("Notification"))]_vars

\* The third attempt succeeded and the note came back unmarked.
C12_Witness ==
  /\ attempts["Notification"] = NotificationBudget
  /\ OutputOf("Notification") = NoteOutput

\* C13 as stated: a persistence error caused by a payload the Gateway's own
\* validation rejects is never retried: no further attempt of any stage
\* follows such a result, and Notification returns the
\* DEAL_NOTE_SCHEMA_INVALID error object right after the first one.
C13_Original ==
  [][\A s \in StageSet :
       /\ attempts'[s] > attempts[s] => ~RejectedByValidation(s)
       /\ (s = "Notification" /\ ReturnsAfterAttempts(s)
              /\ RejectedByValidation(s))
            => /\ attempts[s] = 1
               /\ OutputOf(s)' = ErrorOutput("DEAL_NOTE_SCHEMA_INVALID")]_vars

\* C13: a payload the Gateway's own validation rejects is retried like any
\* other error until the stage's budget is used up; none of these attempts
\* reaches the Warehouse, and Notification then returns the
\* DEAL_NOTE_SCHEMA_INVALID error object instead of the note.
C13_RejectedPayloadRetriedToBudget ==
  [][\A s \in StageSet :
       (stagePc[s] = "react" /\ RejectedByValidation(s)
          /\ stagePc'[s] # "react")
         => /\ warehouse[TableOf(s)].calls = 0
            /\ IF attempts[s] < Budget(s)
               THEN stagePc'[s] = "persist"
               ELSE /\ stagePc'[s] = "done"
                    /\ warehouse' = warehouse
                    /\ s = "Notification"
                         => OutputOf(s)' =
                              ErrorOutput("DEAL_NOTE_SCHEMA_INVALID")]_vars

\* Notification's payload was rejected three times before the error object
\* came back.
C13_Witness ==
  /\ attempts["Notification"] = NotificationBudget
  /\ OutputOf("Notification") = ErrorOutput("DEAL_NOTE_SCHEMA_INVALID")

\* The codes of the standardized error objects Notification returns when
\* run by the pipeline.
NotificationErrorCodes ==
  {"MISSING_RAW_FILE_TEXT_DATA", "DEAL_NOTE_SCHEMA_INVALID", "TOOL_NOT_INVOKED"}

\* C14: whenever Notification has returned, its output is the note text, the
\* note text behind the "[PERSISTENCE_FAILED] " marker, or a standardized
\* error object; it is never the original input held under
\* raw_file_text_data, the object it serialised for the Gateway, or the
\* Gateway's response.  Before it returns, and when its run is cut short,
\* its output key holds nothing.
C14_OutputIsNoteOrError ==
  LET out == OutputOf("Notification")
  IN  IF stagePc["Notification"] = "done"
      THEN /\ \/ out \in {NoteOutput, MarkedNoteOutput}
              \/ \E c \in NotificationErrorCodes : out = ErrorOutput(c)
           /\ out # session_state["raw_file_text_data"]
           /\ out.body = NotAnObject
      ELSE out = NoOutput

\* Notification returned the marked note after the Gateway answered three
\* times, and the caller has it.
C14_Witness ==
  /\ stagePc["Notification"] = "done"
  /\ attempts["Notification"] = NotificationBudget
  /\ OutputOf("Notification") = MarkedNoteOutput
  /\ rootPc = "returned"

\* C15: when both persistence attempts of Enrichment returned an error, the
\* stage still returns the JSON object it generated, the very object it tried
\* to persist and nothing more; the result is not an error, so Notification
\* is started next and passes its input check.  The profile returned may be
\* one the Warehouse holds no row of.
C15_ProfileReturnedDespiteFailure ==
  [][/\ (stagePc["Enrichment"] = "react"
          /\ toolResult["Enrichment"].status = "error"
          /\ attempts["Enrichment"] = EnrichmentBudget
          /\ stagePc'["Enrichment"] # "react")
        => /\ stagePc'["Enrichment"] = "done"
           /\ OutputOf("Enrichment")' = ProfileOutput(profile)
           /\ payload["Enrichment"].form = "Object"
                => OutputOf("Enrichment")'.body = payload["Enrichment"].rows[1]
           /\ ~IsError(OutputOf("Enrichment")')
           /\ rootPc' = "waiting" /\ stagePc'["Notification"] = "idle"
           /\ \A t \in {"Ingestion", "Enrichment"} : stagePc'[t] = "done"
     /\ (stagePc["Notification"] = "validate_input"
          /\ OutputOf("Enrichment").kind = "profile"
          /\ stagePc'["Notification"] # "validate_input")
        => stagePc'["Notification"] = "invoke"]_vars

\* Both attempts failed, no profile row was written, and Notification went on
\* to compose its note.
C15_Witness ==
  /\ attempts["Enrichment"] = EnrichmentBudget
  /\ OutputOf("Enrichment").kind = "profile"
  /\ warehouse["StructuredProfile"].rows = 0
  /\ analyzerCalls["Notification"] = 1

\* The Ingestion output key holds simplified records.
HoldsSimplifiedRecords(out) == out.kind = "array" /\ out.simplified > 0

\* C16: Ingestion returns simplified records only when its last Gateway call
\* returned success; whenever its output key holds simplified records the
\* Warehouse holds at least as many raw rows, written by a committed load;
\* and when both attempts returned an error it returns an error result
\* holding no simplified record.
C16_SimplifiedOnlyAfterPersisted ==
  [][/\ (stagePc["Ingestion"] # "done" /\ stagePc'["Ingestion"] = "done")
        => /\ HoldsSimplifiedRecords(OutputOf("Ingestion")')
                => toolResult["Ingestion"].status = "success"
           /\ (toolResult["Ingestion"].status = "error"
                 /\ attempts["Ingestion"] = IngestionBudget)
                => /\ IsError(OutputOf("Ingestion")')
                   /\ ~HoldsSimplifiedRecords(OutputOf("Ingestion")')
     /\ HoldsSimplifiedRecords(OutputOf("Ingestion")')
        => /\ warehouse'["RawBatch"].loads >= 1
           /\ warehouse'["RawBatch"].rows >= OutputOf("Ingestion")'.simplified
    ]_vars

\* Ingestion returned simplified records after its second attempt succeeded.
C16_Witness ==
  /\ HoldsSimplifiedRecords(OutputOf("Ingestion"))
  /\ attempts["Ingestion"] = IngestionBudget
  /\ warehouse["RawBatch"].rows >= 1

\* C17: a deal note text without the marker, in the output key of
\* Notification or in the hands of the caller, means the Warehouse holds a
\* DealNote row; a note the caller received while the Warehouse holds no
\* DealNote row carries the "[PERSISTENCE_FAILED] " marker.
C17_UnmarkedNoteIsPersisted ==
  LET rows == warehouse["DealNote"].rows
      received == response.details
  IN  /\ OutputOf("Notification") = NoteOutput => rows >= 1
      /\ (rootPc = "returned" /\ received = NoteOutput) => rows >= 1
      /\ (rootPc = "returned" /\ received.kind \in {"note", "marked_note"}
            /\ rows = 0)
           => received = MarkedNoteOutput

\* The caller received the unmarked note, and the row is there.
C17_Witness ==
  /\ rootPc = "returned"
  /\ response.details = NoteOutput
  /\ warehouse["DealNote"].rows >= 1

\* C18: applying the derivation to its own result changes nothing, whatever
\* combination of present and null revenue_mrr_usd, revenue_arr_usd,
\* cash_on_hand_usd, burn_rate_monthly_usd, runway_months and deal_score the
\* profile started with.
C18_DeriveIdempotent ==
  Len(derivation) >= 3
    => \A i \in 3..Len(derivation) : derivation[i] = derivation[2]

\* A profile with only one revenue figure and a stated runway it could not
\* keep: the first derivation changed several fields, the second none.
C18_Witness ==
  /\ Len(derivation) = 3
  /\ derivation[1].revenue_mrr_usd = None
  /\ derivation[2].revenue_mrr_usd # None
  /\ derivation[2].runway_months # derivation[1].runway_months
  /\ derivation[3] = derivation[2]

\* C19 as stated: after derivation runway_months is floor(cash_on_hand /
\* burn_rate) when both are present and the burn rate is above 0 (100000 and
\* 15000 give 6), and null in every other case, a burn rate of 0 or below
\* included.
C19_RunwayOnlyForPositiveBurn ==
  Len(derivation) >= 2
    => LET p == derivation[1]
           cash == p.cash_on_hand_usd
           burn == p.burn_rate_monthly_usd
       IN  derivation[2].runway_months =
             IF cash # None /\ burn # None /\ Val(burn) > 0
             THEN Some(Val(cash) \div Val(burn))
             ELSE None

\* C20 as stated: the deal_score of the profile Enrichment generates is
\* null or an integer in 1..10; a total above 10 is clamped to 10, one below
\* 1 is clamped to 1, and every clamp is recorded.
C20_DealScoreWithinOneToTen ==
  Len(derivation) >= 2
    => LET total == derivation[1].deal_score
           score == derivation[2].deal_score
       IN  /\ score \in {None} \cup { Some(k) : k \in 1..MaxDealScore }
           /\ (total # None /\ Val(total) > MaxDealScore)
                => score = Some(MaxDealScore)
           /\ (total # None /\ Val(total) < 1) => score = Some(1)
           /\ (total # None /\ score # total)
                => Explanations(derivation[2]) # {}

\* A file whose extraction has not finished.
StillExtracting == \E d \in DOMAIN docState : docState[d].st = "pending"

\* C21: whatever the order in which the files of the input are extracted,
\* Ingestion serialises the batch, and the tool validates and loads it, only
\* once every file has its object or its error entry: no batch is serialised,
\* validated or loaded while a file is still being extracted, and no file is
\* extracted after the batch was serialised.
C21_BatchAfterAllFiles ==
  [][/\ (stagePc["Ingestion"] = "invoke" /\ stagePc'["Ingestion"] = "persist")
        => (~StillExtracting /\ docState' = docState)
     /\ (attempts'["Ingestion"] # attempts["Ingestion"]
          \/ warehouse'["RawBatch"] # warehouse["RawBatch"])
        => (~StillExtracting /\ docState' = docState)
     /\ stagePc["Ingestion"] \in {"persist", "react"}
        => (~StillExtracting /\ docState' \in {docState, <<>>})]_vars

\* Two files or more, one with its object and one with its error entry, and
\* the batch went to the tool.
C21_Witness ==
  /\ Len(docState) >= 2
  /\ docState[1].st = "assembled"
  /\ docState[2].st = "error"
  /\ attempts["Ingestion"] = 1
  /\ stagePc["Ingestion"] = "react"

\* C22: in Ingestion a file that cannot be processed gets its error entry
\* and the stage goes on: the other files keep their state and are still
\* extracted, the batch serialised as an array holds the object of every file
\* that gave one, and the stage returns one simplified record per such file
\* and one error entry per failed file.  When the load still fails after the
\* retry the stage returns, with an error entry for each file of the batch.
C22_FileFailureDoesNotAbort ==
  [][/\ \A d \in DOMAIN docState :
          (d \in DOMAIN docState' /\ docState[d].st = "pending"
             /\ docState'[d].st = "error")
            => /\ stagePc'["Ingestion"] = "invoke"
               /\ \A e \in DOMAIN docState \ {d} : docState'[e] = docState[e]
     /\ (stagePc["Ingestion"] = "invoke" /\ stagePc'["Ingestion"] = "persist"
          /\ payload'["Ingestion"].form = "Array")
        => /\ Len(payload'["Ingestion"].rows) = FilesWith("assembled")
           /\ \A d \in DOMAIN docState :
                docState[d].st = "assembled"
                  => \E i \in DOMAIN payload'["Ingestion"].rows :
                       payload'["Ingestion"].rows[i] = docState[d].row
     /\ (stagePc["Ingestion"] = "react" /\ stagePc'["Ingestion"] # "react"
          /\ toolResult["Ingestion"].status = "success")
        => OutputOf("Ingestion")' =
             ArrayOutput(FilesWith("assembled"), FilesWith("error"))
     /\ (stagePc["Ingestion"] = "react" /\ stagePc'["Ingestion"] # "react"
          /\ toolResult["Ingestion"].status = "error"
          /\ attempts["Ingestion"] = IngestionBudget)
        => /\ stagePc'["Ingestion"] = "done"
           /\ OutputOf("Ingestion")'.kind = "array"
           /\ OutputOf("Ingestion")'.file_errors = Len(docState)]_vars

\* One file failed, another gave its object and was loaded, and the stage
\* returned an error entry and a simplified record.
C22_Witness ==
  /\ stagePc["Ingestion"] = "done"
  /\ OutputOf("Ingestion").kind = "array"
  /\ OutputOf("Ingestion").simplified >= 1
  /\ OutputOf("Ingestion").file_errors >= 1
  /\ warehouse["RawBatch"].rows >= 1

\* The run is over: the root agent answered, or a tool call did not return
\* but raised.
Returned == rootPc = "returned"
CutShort == \E s \in StageSet : stagePc[s] = "crashed"

LoadCalls(t) == warehouse[t].calls
TotalLoadCalls ==
  LoadCalls("RawBatch") + LoadCalls("StructuredProfile") + LoadCalls("DealNote")

\* C23: every run whose calls all return ends with the root agent answering
\* the note text, the marked note text or an error; a run issues at most 2
\* load calls for RawBatch, 2 for StructuredProfile and 3 for DealNote, at
\* most 7 in all, and no stage calls its tool more often than that.
C23_RunTerminatesWithinBudget ==
  /\ [](/\ \A s \in StageSet : LoadCalls(TableOf(s)) <= attempts[s]
        /\ attempts["Ingestion"] <= IngestionBudget
        /\ attempts["Enrichment"] <= EnrichmentBudget
        /\ attempts["Notification"] <= NotificationBudget
        /\ TotalLoadCalls
             <= IngestionBudget + EnrichmentBudget + NotificationBudget
        /\ (Returned
             => response.details.kind \in {"note", "marked_note", "error"}))
  /\ <>(Returned \/ CutShort)

\* A run that used all 7 load calls and ended with the root agent's answer.
C23_Witness ==
  /\ Returned
  /\ LoadCalls("RawBatch") = IngestionBudget
  /\ LoadCalls("StructuredProfile") = EnrichmentBudget
  /\ LoadCalls("DealNote") = NotificationBudget

\* C24: the outcome of Notification's input check is decided by what the
\* key raw_file_text_data holds and by nothing else: it returns the
\* MISSING_RAW_FILE_TEXT_DATA error object exactly when that key is absent or
\* malformed and goes on to compose the note otherwise, whatever Enrichment
\* left under structured_company_data (a profile it persisted, a profile
\* it could not persist, an error object).
C24_PreconditionReadsRawOnly ==
  [][(stagePc["Notification"] = "validate_input"
        /\ stagePc'["Notification"] # "validate_input")
       => IF InputAbsentOrMalformed
          THEN /\ stagePc'["Notification"] = "done"
               /\ OutputOf("Notification")' =
                    ErrorOutput("MISSING_RAW_FILE_TEXT_DATA")
          ELSE /\ stagePc'["Notification"] = "invoke"
               /\ OutputOf("Notification")' = NoOutput]_vars

\* Notification passed its input check although Enrichment left a profile
\* without company_id that is in no Warehouse row.
C24_Witness ==
  /\ stagePc["Notification"] = "invoke"
  /\ OutputOf("Enrichment").kind = "profile"
  /\ "company_id" \notin OutputOf("Enrichment").body.keys
  /\ warehouse["StructuredProfile"].rows = 0

\* C25: the profile tool requires the keys company_id and company_name and
\* nothing else.  A JSON object carrying both, whatever they hold (null
\* included) and whatever other keys it has or lacks, is never rejected for
\* missing fields and goes to the Warehouse as a load of one row; an object
\* lacking one of the two is answered with status error, the message
\* "missing required core fields" and the list of the missing ones, no load
\* is issued and the table stays as it was.
C25_CoreFieldsContract ==
  LET p == payload["Enrichment"]
      res == toolResult["Enrichment"]
      table == warehouse["StructuredProfile"]
  IN  (p.form = "Object" /\ res.status # "unset")
        => LET missing == {"company_id", "company_name"} \ p.rows[1].keys
           IN  IF missing = {}
               THEN /\ res.message # "missing required core fields"
                    /\ res.details.kind # "fields"
                    /\ (res.status # "raised"
                         => (lastCall["Enrichment"].load /\ Submitted(p) = 1))
                    /\ res.status = "success" => table.rows >= 1
                    /\ table.rows = table.loads
               ELSE /\ res.status = "error"
                    /\ res.message = "missing required core fields"
                    /\ res.details = FieldDetails(missing)
                    /\ ~lastCall["Enrichment"].load
                    /\ Untouched("StructuredProfile")

\* A profile whose company_id is null and which has no key beyond the two
\* core ones and deal_score was loaded as one row.
C25_Witness ==
  /\ payload["Enrichment"].form = "Object"
  /\ "company_id" \in payload["Enrichment"].rows[1].nulls
  /\ toolResult["Enrichment"].status = "success"
  /\ warehouse["StructuredProfile"].rows = 1

====
